---- MODULE Spec2Model ----
(***************************************************************************)
(* Model of src/slack_sender.py: the SlackSender class                     *)
(* (__init__, _validate_settings, create_slack_blocks, send_notification). *)
(*                                                                         *)
(* Python values are represented as follows.                               *)
(*   - str            : a TLA+ string; None is the reserved string None.   *)
(*   - a date field   : [isStr, chars] where chars is the sequence of the  *)
(*                      string's characters (strptime reads them one by    *)
(*                      one).                                              *)
(*   - a list element : [mapping, fields]; fields is the dict (a function  *)
(*                      whose DOMAIN is the set of keys present).          *)
(*   - the questions  : [isNone, items].                                   *)
(*   - a block        : [type, key, text]; key names the JSON key that     *)
(*                      carries the text, text is the sequence of the      *)
(*                      pieces the f-string concatenates.                  *)
(***************************************************************************)
EXTENDS Integers, Sequences, FiniteSets, TLC

\* ------------------------------------------------------------------ bounds
MaxQuestions == 15
MaxCalls == 2
MaxTicks == 1
ConcExtra == 1

\* ------------------------------------------------------- program constants
DisplayCap == 10

\* ------------------------------------------------------------ Python values
None == "<None>"

Truthy(s) == s \notin {None, ""}

PyOr(a, b) == IF Truthy(a) THEN a ELSE b

DictGet(d, k, default) == IF k \in DOMAIN d THEN d[k] ELSE default

Min(a, b) == IF a < b THEN a ELSE b

Threads == {1, 2}

\* ------------------------------------------------------------- environment
EnvTokenVar == "AEM_SLACK_TOKEN"
EnvChannelVar == "AEM_SLACK_CHANNEL"
EnvTitleVar == "AEM_REPORT_TITLE"
DefaultChannel == "general"
DefaultTitle == "Adobe Experience League Forums: Unresolved Questions"

\* os.environ: every subset of the three variables may be set, a set
\* variable may be the empty string.
EnvValue(k) ==
    CASE k = EnvTokenVar -> "xoxb-env"
      [] k = EnvChannelVar -> "env-channel"
      [] OTHER -> "Env Title"

Environments ==
    { e \in UNION { [S -> {"", "xoxb-env", "env-channel", "Env Title"}] :
                       S \in SUBSET {EnvTokenVar, EnvChannelVar, EnvTitleVar} } :
        \A k \in DOMAIN e : e[k] \in {"", EnvValue(k)} }

CtorArgValues == {None, "", "explicit"}

\* ------------------------------------------------------------------- dates
\* A calendar date is <<year, month, day>>; the clock is [date, hour].
IsLeap(y) == (y % 4 = 0) /\ ((y % 100 # 0) \/ (y % 400 = 0))

DaysInMonth(y, m) ==
    CASE m \in {1, 3, 5, 7, 8, 10, 12} -> 31
      [] m \in {4, 6, 9, 11} -> 30
      [] OTHER -> IF IsLeap(y) THEN 29 ELSE 28

RECURSIVE DaysBeforeMonth(_, _)
DaysBeforeMonth(y, m) ==
    IF m = 1 THEN 0 ELSE DaysBeforeMonth(y, m - 1) + DaysInMonth(y, m - 1)

\* datetime.toordinal: 0001-01-01 is day 1.
Ordinal(d) ==
    LET y == d[1] - 1
    IN  365 * y + (y \div 4) - (y \div 100) + (y \div 400)
        + DaysBeforeMonth(d[1], d[2]) + d[3]

Digits == <<"0", "1", "2", "3", "4", "5", "6", "7", "8", "9">>

IsDigit(c) == \E i \in 1..10 : Digits[i] = c

DigitVal(c) == (CHOOSE i \in 1..10 : Digits[i] = c) - 1

\* The value of a one- or two-character field matched by strptime's regex
\* for %m (1[0-2]|0[1-9]|[1-9]) or %d (3[01]|[12]\d|0[1-9]|[1-9]| [1-9]);
\* 0 when the field does not match.
FieldVal(cs, max, allowSpace) ==
    IF Len(cs) = 1
    THEN IF IsDigit(cs[1]) /\ DigitVal(cs[1]) >= 1 THEN DigitVal(cs[1]) ELSE 0
    ELSE IF Len(cs) = 2
    THEN IF IsDigit(cs[1]) /\ IsDigit(cs[2])
         THEN LET v == 10 * DigitVal(cs[1]) + DigitVal(cs[2])
              IN  IF v >= 1 /\ v <= max THEN v ELSE 0
         ELSE IF allowSpace /\ cs[1] = " " /\ IsDigit(cs[2]) /\ DigitVal(cs[2]) >= 1
         THEN DigitVal(cs[2])
         ELSE 0
    ELSE 0

\* datetime.strptime(date, "%Y-%m-%d"): [ok, date].  ok is FALSE when
\* the call raises (TypeError for a non-string, ValueError for a string
\* that does not match the format or names no calendar day).
Strptime(date) ==
    LET cs == date.chars
        fail == [ok |-> FALSE, date |-> <<1, 1, 1>>]
    IN  IF ~date.isStr THEN fail
        ELSE IF Len(cs) < 8 \/ Len(cs) > 10 THEN fail
        ELSE IF ~(\A i \in 1..4 : IsDigit(cs[i])) \/ cs[5] # "-" THEN fail
        ELSE LET y == 1000 * DigitVal(cs[1]) + 100 * DigitVal(cs[2])
                      + 10 * DigitVal(cs[3]) + DigitVal(cs[4])
                 dash == IF cs[7] = "-" THEN 7 ELSE 8
             IN  IF cs[dash] # "-" \/ dash = Len(cs) THEN fail
                 ELSE LET m == FieldVal(SubSeq(cs, 6, dash - 1), 12, FALSE)
                          d == FieldVal(SubSeq(cs, dash + 1, Len(cs)), 31, TRUE)
                      IN  IF m = 0 \/ d = 0 \/ y = 0 THEN fail
                          ELSE IF d > DaysInMonth(y, m) THEN fail
                          ELSE [ok |-> TRUE, date |-> <<y, m, d>>]

\* Faulty variant: the difference is truncated towards zero.
AgeDaysTruncated(clock, qdate) ==
    LET hours == (Ordinal(clock.date) - Ordinal(qdate)) * 24 + clock.hour
    IN  IF hours < 0 THEN 0 - ((0 - hours) \div 24) ELSE hours \div 24

\* (datetime.now() - question_date).days: timedelta normalises so that
\* days is the floor of the difference.
AgeDays(clock, qdate) ==
    ((Ordinal(clock.date) - Ordinal(qdate)) * 24 + clock.hour) \div 24

\* ------------------------------------------------------------ input values
D_2024_01_01 == <<"2", "0", "2", "4", "-", "0", "1", "-", "0", "1">>

D_2024_01_08 == <<"2", "0", "2", "4", "-", "0", "1", "-", "0", "8">>

D_2024_01_11 == <<"2", "0", "2", "4", "-", "0", "1", "-", "1", "1">>

D_2023_12_31 == <<"2", "0", "2", "3", "-", "1", "2", "-", "3", "1">>

D_2024_1_9 == <<"2", "0", "2", "4", "-", "1", "-", "9">>

D_not_a_date == <<"n", "o", "t", "-", "a", "-", "d", "a", "t", "e">>

D_2024_02_30 == <<"2", "0", "2", "4", "-", "0", "2", "-", "3", "0">>

D_Unknown_Date == <<"U", "n", "k", "n", "o", "w", "n", " ", "D", "a", "t", "e">>

StrDate(cs) == [isStr |-> TRUE, chars |-> cs]

NonStrDate == [isStr |-> FALSE, chars |-> <<>>]

Mapping(d) == [mapping |-> TRUE, fields |-> d]

\* A list element that is not a mapping (None, a string, a number).
NotAMapping == [mapping |-> FALSE, fields |-> <<>>]

RecOld == Mapping([title |-> "Q-old", url |-> "http://q/old", date |-> StrDate(D_2024_01_01), replies |-> 0])

RecNew == Mapping([title |-> "Q-new", url |-> "http://q/new", date |-> StrDate(D_2024_01_08), replies |-> 2])

RecFuture == Mapping([title |-> "Q-future", url |-> "http://q/f", date |-> StrDate(D_2024_01_11), replies |-> 1])

RecLastYear == Mapping([title |-> "Q-2023", url |-> "http://q/y", date |-> StrDate(D_2023_12_31), replies |-> 5])

RecShort == Mapping([title |-> "Q-short", url |-> "http://q/s", date |-> StrDate(D_2024_1_9), replies |-> 0])

RecBadDate == Mapping([title |-> "Q-bad", url |-> "http://q/bad", date |-> StrDate(D_not_a_date), replies |-> 3])

RecNoDay == Mapping([title |-> "Q-feb30", url |-> "http://q/feb", date |-> StrDate(D_2024_02_30), replies |-> 0])

RecNonStr == Mapping([title |-> "Q-nonstr", date |-> NonStrDate])

RecEmpty == Mapping(<<>>)

\* The contents of a questions list: the list of length n repeats one of
\* these patterns, so lists are unsorted and hold duplicates.
Patterns == {
    <<RecNew, RecOld, RecNew>>,
    <<RecBadDate, RecOld, RecEmpty>>,
    <<RecFuture, RecNonStr, RecLastYear>>,
    <<RecShort, RecNoDay, RecOld>>,
    <<RecOld, NotAMapping, RecNew>> }

ConcPatterns == { <<RecBadDate, RecOld, RecEmpty>>, <<RecOld, NotAMapping, RecNew>> }

ListOf(n, p) == [i \in 1..n |-> p[((i - 1) % Len(p)) + 1]]

NoneQuestions == [isNone |-> TRUE, items |-> <<>>]

\* The lengths tried: the short lists, the lengths around the display cap,
\* and the longest.
Lengths == (0..3) \cup ((DisplayCap - 1)..(DisplayCap + 2)) \cup {MaxQuestions - 1, MaxQuestions}

ConcLengths == {0, 1, DisplayCap + ConcExtra}

QuestionsArgs(lens, pats) ==
    {NoneQuestions} \cup { [isNone |-> FALSE, items |-> ListOf(n, p)] : n \in lens, p \in pats }

StartDates == {None, "2024-01-01"}

Clocks == { [date |-> <<2024, 1, 10>>, hour |-> 15] }

\* ------------------------------------------------------ create_slack_blocks
PyStr(s) == IF s = None THEN "None" ELSE s

Pad2(n) == IF n < 10 THEN "0" \o ToString(n) ELSE ToString(n)

\* datetime.now().strftime("%Y-%m-%d %H:%M:%S")
NowText(clock) ==
    ToString(clock.date[1]) \o "-" \o Pad2(clock.date[2]) \o "-" \o Pad2(clock.date[3])
        \o " " \o Pad2(clock.hour) \o ":00:00"

Block(type, key, text) == [type |-> type, key |-> key, text |-> text]

Divider == Block("divider", "", <<>>)

\* Faulty variant: the divider after the count is left out.
HeaderBlocksNoDivider(title, n, start_date, clock) ==
    << Block("header", "text", <<title>>),
       Block("section", "fields",
             <<"*Report generated:* ", NowText(clock), "*Questions since:* ", PyStr(start_date)>>),
       Block("section", "text", <<"Found *", ToString(n), "* unanswered questions.">>) >>

HeaderBlocks(title, n, start_date, clock) ==
    << Block("header", "text", <<title>>),
       Block("section", "fields",
             <<"*Report generated:* ", NowText(clock), "*Questions since:* ", PyStr(start_date)>>),
       Block("section", "text", <<"Found *", ToString(n), "* unanswered questions.">>),
       Divider >>

NoResultsBlock ==
    Block("section", "text", <<"No unanswered questions found in the specified time period.">>)

NoteBlock(shown, total) ==
    Block("context", "elements",
          <<"_Showing ", ToString(shown), " of ", ToString(total),
            " questions. Check email report for complete list._">>)

UnknownDate == StrDate(D_Unknown_Date)

LogEntry(level, text) == [level |-> level, text |-> text]

\* The age text of one question and what the try/except around it logs.
AgeOfParsed(parsed, clock) ==
    IF parsed.ok
    THEN [text |-> <<ToString(AgeDays(clock, parsed.date)), " days">>,
          log |-> <<LogEntry("info", "Attempting to parse date")>>]
    ELSE [text |-> <<"Unknown">>,
          log |-> <<LogEntry("info", "Attempting to parse date"),
                    LogEntry("error", "Failed to parse date")>>]

AgeOf(question, clock) ==
    AgeOfParsed(Strptime(DictGet(question.fields, "date", UnknownDate)), clock)

QuestionBlock(question, clock) ==
    LET title == DictGet(question.fields, "title", "Untitled Question")
        url == DictGet(question.fields, "url", "#")
        replies == DictGet(question.fields, "replies", 0)
    IN  Block("section", "text",
              <<"*<", url, "|", title, ">*\nAge: ">> \o AgeOf(question, clock).text
                  \o <<" | Replies: ", ToString(replies)>>)

\* Faulty variant: the last display_count questions are shown.
DisplayedLast(items, display_count) ==
    SubSeq(items, Len(items) - display_count + 1, Len(items))

\* questions[:display_count]
Displayed(items, display_count) == SubSeq(items, 1, display_count)

\* Faulty variant: a divider follows every question.
DividerAfterEvery(i, display_count) == i <= display_count

\* if i < display_count - 1, for the i-th displayed question counted from 1.
DividerAfter(i, display_count) == i < display_count

\* Faulty variant: the list is truncated in place (del questions[display_count:]).
CallerListTruncated(questions, display_count) ==
    [questions EXCEPT !.items = SubSeq(@, 1, display_count)]

\* The caller's list once questions[:display_count] was evaluated: the
\* slice is a copy, the list is left as it was.
CallerListAfterSlice(questions, display_count) == questions

\* The for loop of create_slack_blocks from the i-th displayed question on;
\* acc is [raised, blocks, log, questions].  question.get on an element that
\* is not a mapping raises AttributeError, which nothing in the loop catches.
RECURSIVE QuestionLoop(_, _, _, _)
QuestionLoop(shown, i, clock, acc) ==
    IF i > Len(shown) THEN acc
    ELSE IF ~shown[i].mapping THEN [acc EXCEPT !.raised = TRUE]
    ELSE QuestionLoop(shown, i + 1, clock,
                      [acc EXCEPT !.blocks = Append(@, QuestionBlock(shown[i], clock))
                                             \o (IF DividerAfter(i, Len(shown))
                                                 THEN <<Divider>> ELSE <<>>),
                                  !.log = @ \o AgeOf(shown[i], clock).log])

\* if len(questions) > display_count: the note is appended to what the loop
\* built.
WithNote(looped, n, display_count) ==
    IF looped.raised THEN looped
    ELSE IF n > display_count
    THEN [looped EXCEPT !.blocks = Append(@, NoteBlock(display_count, n))]
    ELSE looped

\* create_slack_blocks(questions, start_date): [raised, blocks, log, questions].
\* len(None) raises TypeError.
create_slack_blocks(title, questions, start_date, clock) ==
    IF questions.isNone
    THEN [raised |-> TRUE, blocks |-> <<>>, log |-> <<>>, questions |-> questions]
    ELSE
    IF Len(questions.items) = 0
    THEN [raised |-> FALSE,
          blocks |-> Append(HeaderBlocks(title, 0, start_date, clock), NoResultsBlock),
          log |-> <<>>, questions |-> questions]
    ELSE WithNote(QuestionLoop(Displayed(questions.items, Min(DisplayCap, Len(questions.items))),
                               1, clock,
                               [raised |-> FALSE,
                                blocks |-> HeaderBlocks(title, Len(questions.items),
                                                        start_date, clock),
                                log |-> <<>>,
                                questions |-> CallerListAfterSlice(
                                                  questions,
                                                  Min(DisplayCap, Len(questions.items)))]),
                  Len(questions.items), Min(DisplayCap, Len(questions.items)))

\* ------------------------------------------------------------ construction
\* self.token = token or os.environ.get("AEM_SLACK_TOKEN")
InitToken(argToken, e) == PyOr(argToken, DictGet(e, EnvTokenVar, None))

\* Faulty variant: no default channel.
InitChannelNoDefault(argChannel, e) == PyOr(argChannel, DictGet(e, EnvChannelVar, None))

\* self.channel = channel or os.environ.get("AEM_SLACK_CHANNEL", "general")
InitChannel(argChannel, e) == PyOr(argChannel, DictGet(e, EnvChannelVar, DefaultChannel))

\* self.report_title = os.environ.get("AEM_REPORT_TITLE", <default>)
InitTitle(e) == DictGet(e, EnvTitleVar, DefaultTitle)

\* _validate_settings: the log it leaves.
ValidateSettings(tok, ch) ==
    LET missing == (IF ~Truthy(tok) THEN <<"Slack token">> ELSE <<>>)
                   \o (IF ~Truthy(ch) THEN <<"Slack channel">> ELSE <<>>)
    IN  IF missing # <<>>
        THEN <<[level |-> "warning", text |-> "Missing Slack settings", missing |-> missing]>>
        ELSE <<>>

\* ------------------------------------------------------------------- state
VARIABLES
    env,            \* os.environ
    args,           \* the arguments the constructor was called with
    constructed,    \* __init__ has returned
    token, channel, report_title,   \* the instance attributes
    ctorLog,        \* what construction logged
    clock, ticks,   \* datetime.now() and how often it advanced
    pc,             \* per caller: "idle", "awaiting", "returned", "raised"
    op,             \* per caller: the method of its current call
    given,          \* per caller: the questions argument as passed
    questions,      \* per caller: the caller's list object now
    start_date,     \* per caller: the start_date argument
    blocks,         \* per caller: the block list of the current call
    sent,           \* per caller: the POSTs the current call issued
    response,       \* per caller: the outcome of requests.post, once known
    ret,            \* per caller: "none", "True", "False"
    log,            \* per caller: what the current call logged
    calls, passed, posts    \* calls made, calls past the preconditions, POSTs

config == <<env, args, constructed, token, channel, report_title, ctorLog>>

frames == <<pc, op, given, questions, start_date, blocks, sent, response, ret, log>>

counters == <<calls, passed, posts>>

vars == <<config, clock, ticks, frames, counters>>

NoArgs == [token |-> None, channel |-> None]

IdleFrames ==
    /\ pc = [t \in Threads |-> "idle"]
    /\ op = [t \in Threads |-> "none"]
    /\ given = [t \in Threads |-> NoneQuestions]
    /\ questions = [t \in Threads |-> NoneQuestions]
    /\ start_date = [t \in Threads |-> None]
    /\ blocks = [t \in Threads |-> <<>>]
    /\ sent = [t \in Threads |-> <<>>]
    /\ response = [t \in Threads |-> <<>>]
    /\ ret = [t \in Threads |-> "none"]
    /\ log = [t \in Threads |-> <<>>]
    /\ calls = 0 /\ passed = 0 /\ posts = 0

\* SlackSender(token, channel): __init__ and _validate_settings.
Construct(a) ==
    /\ ~constructed
    /\ args' = a
    /\ token' = InitToken(a.token, env)
    /\ channel' = InitChannel(a.channel, env)
    /\ report_title' = InitTitle(env)
    /\ ctorLog' = ValidateSettings(token', channel')
    /\ constructed' = TRUE
    /\ UNCHANGED <<env, clock, ticks, frames, counters>>

CtorArgs == [token : CtorArgValues, channel : CtorArgValues]

InitCtor ==
    /\ env \in Environments
    /\ args = NoArgs
    /\ constructed = FALSE
    /\ token = None /\ channel = None /\ report_title = None
    /\ ctorLog = <<>>
    /\ clock \in Clocks /\ ticks = 0
    /\ IdleFrames

NextCtor == \E a \in CtorArgs : Construct(a)

SpecCtor == InitCtor /\ [][NextCtor]_vars

\* ------------------------------------------------------- send_notification
PostUrl == "https://slack.com/api/chat.postMessage"

QuestionsTruthy(q) == ~q.isNone /\ Len(q.items) > 0

\* The request requests.post is called with.
Request(tok, ch, title, q, sd, blks) ==
    [url |-> PostUrl,
     authorization |-> "Bearer " \o tok,
     content_type |-> "application/json",
     channel |-> ch,
     text |-> title \o " - Found " \o ToString(Len(q.items)) \o " questions since " \o sd,
     blocks |-> blks]

\* Faulty variant: only the token is checked.
SettingsMissingTokenOnly(tok, ch) == ~Truthy(tok)

\* if not self.token or not self.channel
SettingsMissing(tok, ch) == ~Truthy(tok) \/ ~Truthy(ch)

\* Faulty variant: the request is repeated.
PostsWithRetry(req) == <<req, req>>

\* requests.post is called once.
Posts(req) == <<req>>

\* send_notification from the return of create_slack_blocks to the call of
\* requests.post; an exception of create_slack_blocks is not caught.
PostBlocks(tok, ch, title, q, date, built) ==
    IF built.raised
    THEN [pc |-> "raised", ret |-> "none", blocks |-> <<>>, sent |-> <<>>,
          passed |-> TRUE, log |-> built.log, questions |-> built.questions]
    ELSE [pc |-> "awaiting", ret |-> "none", blocks |-> built.blocks,
          sent |-> Posts(Request(tok, ch, title, q, date, built.blocks)),
          passed |-> TRUE, log |-> built.log, questions |-> built.questions]

\* send_notification up to and including the call of requests.post:
\* [pc, ret, log, blocks, sent, passed, questions].
SendSteps(tok, ch, title, q, sd, clk) ==
    IF ~QuestionsTruthy(q)
    THEN [pc |-> "returned", ret |-> "False", blocks |-> <<>>, sent |-> <<>>, passed |-> FALSE,
          log |-> <<LogEntry("warning", "No questions to send in the Slack notification")>>,
          questions |-> q]
    ELSE IF SettingsMissing(tok, ch)
    THEN [pc |-> "returned", ret |-> "False", blocks |-> <<>>, sent |-> <<>>, passed |-> FALSE,
          log |-> <<LogEntry("error", "Missing required Slack settings")>>,
          questions |-> q]
    ELSE PostBlocks(tok, ch, title, q, PyOr(sd, "unknown date"),
                    create_slack_blocks(title, q, PyOr(sd, "unknown date"), clk))

Free(t) == pc[t] \in {"idle", "returned", "raised"}

SendNotification(t, q, sd) ==
    /\ constructed /\ Free(t) /\ calls < MaxCalls
    /\ \E r \in {SendSteps(token, channel, report_title, q, sd, clock)} :
           /\ pc' = [pc EXCEPT ![t] = r.pc]
           /\ ret' = [ret EXCEPT ![t] = r.ret]
           /\ blocks' = [blocks EXCEPT ![t] = r.blocks]
           /\ sent' = [sent EXCEPT ![t] = r.sent]
           /\ log' = [log EXCEPT ![t] = r.log]
           /\ questions' = [questions EXCEPT ![t] = r.questions]
           /\ passed' = IF r.passed THEN passed + 1 ELSE passed
           /\ posts' = posts + Len(r.sent)
    /\ op' = [op EXCEPT ![t] = "send_notification"]
    /\ given' = [given EXCEPT ![t] = q]
    /\ start_date' = [start_date EXCEPT ![t] = sd]
    /\ response' = [response EXCEPT ![t] = <<>>]
    /\ calls' = calls + 1
    /\ UNCHANGED <<config, clock, ticks>>

\* What requests.post and response.json() can produce.  ok is the JSON
\* literal of the field, error a string; either may be absent.
JsonTruthy(lit) == lit \notin {"false", "null", "0"}

Bodies ==
    { [decodes |-> FALSE, isDict |-> FALSE, data |-> <<>>],
      [decodes |-> TRUE, isDict |-> FALSE, data |-> <<>>] }
    \cup { [decodes |-> TRUE, isDict |-> TRUE, data |-> d] :
             d \in UNION { { f \in [S -> {"true", "false", "1", "null", "channel_not_found"}] :
                               /\ "ok" \in S => f["ok"] # "channel_not_found"
                               /\ "error" \in S => f["error"] = "channel_not_found" } :
                           S \in SUBSET {"ok", "error"} } }

NoBody == [decodes |-> FALSE, isDict |-> FALSE, data |-> <<>>]

Outcomes ==
    { [raises |-> TRUE, status |-> 0, body |-> NoBody] }
    \cup { [raises |-> FALSE, status |-> st, body |-> b] : st \in {200, 500}, b \in Bodies }

\* Faulty variant: the HTTP status is not looked at.
AcknowledgedIgnoringStatus(o) == JsonTruthy(DictGet(o.body.data, "ok", "null"))

\* response.status_code == 200 and response_data.get("ok")
Acknowledged(o) == o.status = 200 /\ JsonTruthy(DictGet(o.body.data, "ok", "null"))

\* The try block of send_notification once requests.post has returned or
\* raised: [ret, log].
HandleOutcome(o, ch) ==
    LET failed(msg) ==
            [ret |-> "False",
             log |-> <<LogEntry("error", "Failed to send Slack notification: " \o msg)>>]
    IN  IF o.raises THEN failed("ConnectionError")
        ELSE IF ~o.body.decodes THEN failed("JSONDecodeError")
        ELSE IF ~o.body.isDict THEN failed("AttributeError")
        ELSE IF Acknowledged(o)
        THEN [ret |-> "True",
              log |-> <<LogEntry("info", "Slack notification sent successfully to #" \o ch)>>]
        ELSE failed(DictGet(o.body.data, "error", "Unknown error"))

PostReturns(t, o) ==
    /\ pc[t] = "awaiting"
    /\ \E r \in {HandleOutcome(o, channel)} :
           /\ ret' = [ret EXCEPT ![t] = r.ret]
           /\ log' = [log EXCEPT ![t] = @ \o r.log]
    /\ response' = [response EXCEPT ![t] = <<o>>]
    /\ pc' = [pc EXCEPT ![t] = "returned"]
    /\ UNCHANGED <<config, clock, ticks, op, given, questions, start_date, blocks, sent, counters>>

\* A direct call of create_slack_blocks.
CreateSlackBlocks(t, q, sd) ==
    /\ constructed /\ Free(t) /\ calls < MaxCalls
    /\ \E r \in {create_slack_blocks(report_title, q, sd, clock)} :
           /\ pc' = [pc EXCEPT ![t] = IF r.raised THEN "raised" ELSE "returned"]
           /\ blocks' = [blocks EXCEPT ![t] = r.blocks]
           /\ log' = [log EXCEPT ![t] = r.log]
           /\ questions' = [questions EXCEPT ![t] = r.questions]
    /\ op' = [op EXCEPT ![t] = "create_slack_blocks"]
    /\ given' = [given EXCEPT ![t] = q]
    /\ start_date' = [start_date EXCEPT ![t] = sd]
    /\ ret' = [ret EXCEPT ![t] = "none"]
    /\ sent' = [sent EXCEPT ![t] = <<>>]
    /\ response' = [response EXCEPT ![t] = <<>>]
    /\ calls' = calls + 1
    /\ UNCHANGED <<config, clock, ticks, passed, posts>>

\* The wall clock advances (by fifteen hours, so both the hour and the day
\* change over a run).
NextDay(d) ==
    IF d[3] < DaysInMonth(d[1], d[2]) THEN <<d[1], d[2], d[3] + 1>>
    ELSE IF d[2] < 12 THEN <<d[1], d[2] + 1, 1>>
    ELSE <<d[1] + 1, 1, 1>>

Tick ==
    /\ ticks < MaxTicks
    /\ ticks' = ticks + 1
    /\ clock' = IF clock.hour + 15 < 24
                THEN [clock EXCEPT !.hour = @ + 15]
                ELSE [date |-> NextDay(clock.date), hour |-> clock.hour + 15 - 24]
    /\ UNCHANGED <<config, frames, counters>>

\* ---------------------------------------------------------- specifications
\* The instances the send specifications start from: each is the state
\* Construct leaves for one environment and one pair of arguments.
SendConfigs ==
    { [env |-> <<>>, args |-> [token |-> "explicit", channel |-> "explicit"]],
      [env |-> [AEM_SLACK_TOKEN |-> "xoxb-env"], args |-> NoArgs],
      [env |-> <<>>, args |-> NoArgs],
      [env |-> [AEM_SLACK_CHANNEL |-> ""], args |-> [token |-> "explicit", channel |-> None]],
      [env |-> [AEM_SLACK_TOKEN |-> "", AEM_SLACK_CHANNEL |-> ""], args |-> NoArgs] }

Constructed(cfgs) ==
    \E c \in cfgs :
        /\ env = c.env
        /\ args = c.args
        /\ constructed = TRUE
        /\ token = InitToken(c.args.token, c.env)
        /\ channel = InitChannel(c.args.channel, c.env)
        /\ report_title = InitTitle(c.env)
        /\ ctorLog = ValidateSettings(token, channel)

\* The caller of the sequential specification holds one questions list and
\* one start date, and calls the two methods with them.
Init ==
    /\ Constructed(SendConfigs)
    /\ clock \in Clocks /\ ticks = 0
    /\ pc = [t \in Threads |-> "idle"]
    /\ op = [t \in Threads |-> "none"]
    /\ given \in { [t \in Threads |-> IF t = 1 THEN q ELSE NoneQuestions] :
                     q \in QuestionsArgs(Lengths, Patterns) }
    /\ questions = given
    /\ start_date \in { [t \in Threads |-> IF t = 1 THEN sd ELSE None] : sd \in StartDates }
    /\ blocks = [t \in Threads |-> <<>>]
    /\ sent = [t \in Threads |-> <<>>]
    /\ response = [t \in Threads |-> <<>>]
    /\ ret = [t \in Threads |-> "none"]
    /\ log = [t \in Threads |-> <<>>]
    /\ calls = 0 /\ passed = 0 /\ posts = 0

Next ==
    \/ SendNotification(1, given[1], start_date[1])
    \/ \E o \in Outcomes : PostReturns(1, o)
    \/ CreateSlackBlocks(1, given[1], start_date[1])
    \/ Tick

Spec == Init /\ [][Next]_vars

\* Concurrent callers of one instance.
ConcConfigs ==
    { [env |-> <<>>, args |-> [token |-> "explicit", channel |-> "explicit"]],
      [env |-> <<>>, args |-> NoArgs] }

InitConc ==
    /\ Constructed(ConcConfigs)
    /\ clock \in Clocks /\ ticks = 0
    /\ IdleFrames

ConcOutcomes ==
    { [raises |-> TRUE, status |-> 0, body |-> NoBody],
      [raises |-> FALSE, status |-> 500, body |-> NoBody],
      [raises |-> FALSE, status |-> 200,
       body |-> [decodes |-> TRUE, isDict |-> TRUE, data |-> [ok |-> "true"]]],
      [raises |-> FALSE, status |-> 200,
       body |-> [decodes |-> TRUE, isDict |-> TRUE,
                 data |-> [ok |-> "false", error |-> "channel_not_found"]]] }

NextConc ==
    \/ \E t \in Threads, q \in QuestionsArgs(ConcLengths, ConcPatterns) :
           SendNotification(t, q, None)
    \/ \E t \in Threads, o \in ConcOutcomes : PostReturns(t, o)
    \/ \E t \in Threads, q \in QuestionsArgs(ConcLengths, ConcPatterns) :
           CreateSlackBlocks(t, q, "2024-01-01")

SpecConc == InitConc /\ [][NextConc]_vars

\* ------------------------------------------------------------------ claims
Sends(t) == op[t] = "send_notification"

Builds(t) == op[t] = "create_slack_blocks"

NonEmpty(q) == ~q.isNone /\ q.items # <<>>

AllMappings(q) == \A i \in 1..Len(q.items) : q.items[i].mapping

FailureLogged(entries) ==
    \E i \in 1..Len(entries) : entries[i].level \in {"warning", "error"}

LastLogged(t) == log[t][Len(log[t])]

\* C1: send_notification issues a POST only when the questions argument is
\* non-empty and both token and channel are set; in every other case it
\* returns False and issues no POST.
C1_PostOnlyWhenPreconditionsHold ==
    \A t \in Threads :
        Sends(t) =>
            LET ready == NonEmpty(given[t]) /\ token \notin {None, ""} /\ channel \notin {None, ""}
            IN  /\ sent[t] # <<>> => ready
                /\ ~ready => pc[t] = "returned" /\ ret[t] = "False" /\ sent[t] = <<>>

C1_Witness ==
    \E t \in Threads :
        /\ Sends(t) /\ NonEmpty(given[t]) /\ AllMappings(given[t])
        /\ token = "explicit" /\ channel = ""
        /\ ret[t] = "False" /\ sent[t] = <<>>

\* C2 as stated: once the POST was issued and a response came back, the
\* call returns True if and only if the status is 200 and the body's ok
\* flag is true; for every other response it returns False and logs the
\* provider's error string, or "Unknown error" when the body carries none.
C2_Original ==
    \A t \in Threads :
        (Sends(t) /\ response[t] # <<>> /\ ~response[t][1].raises) =>
            LET o == response[t][1]
                data == o.body.data
                ack == o.status = 200 /\ "ok" \in DOMAIN data /\ data["ok"] = "true"
                error == IF "error" \in DOMAIN data THEN data["error"] ELSE "Unknown error"
            IN  /\ ret[t] = "True" <=> ack
                /\ ~ack => /\ ret[t] = "False"
                           /\ LastLogged(t) =
                                  LogEntry("error", "Failed to send Slack notification: " \o error)

\* C2 as amended: once the POST was issued and a response came back, the
\* call returns True if and only if the body decodes to a JSON object, the
\* status is 200 and the object's ok field is present and truthy (not
\* false, null or 0); every other response returns False; the error logged
\* is the object's error string, or "Unknown error" when the object has
\* none, and is the text of the exception when the body does not decode to
\* a JSON object.
C2_TrueIffAcknowledged ==
    \A t \in Threads :
        (Sends(t) /\ response[t] # <<>> /\ ~response[t][1].raises) =>
            LET o == response[t][1]
                data == o.body.data
                object == o.body.decodes /\ o.body.isDict
                ack == /\ object /\ o.status = 200
                       /\ "ok" \in DOMAIN data /\ data["ok"] \notin {"false", "null", "0"}
                error == IF "error" \in DOMAIN data THEN data["error"] ELSE "Unknown error"
                logged == LastLogged(t)
            IN  /\ ret[t] = "True" <=> ack
                /\ ~ack => ret[t] = "False" /\ logged.level = "error"
                /\ (~ack /\ object) =>
                       logged.text = "Failed to send Slack notification: " \o error
                /\ ~object =>
                       logged.text \in {"Failed to send Slack notification: JSONDecodeError",
                                        "Failed to send Slack notification: AttributeError"}

C2_Witness ==
    \E t \in Threads :
        /\ Sends(t) /\ response[t] # <<>> /\ ~response[t][1].raises
        /\ response[t][1].status = 200 /\ ~response[t][1].body.decodes
        /\ ret[t] = "False"

\* C3: no call of send_notification raises: every call ends by returning a
\* boolean, and every False return is preceded by a logged warning or error.
C3_NeverRaises ==
    \A t \in Threads :
        Sends(t) =>
            /\ pc[t] # "raised"
            /\ pc[t] = "returned" => ret[t] \in {"True", "False"}
            /\ ret[t] = "False" => FailureLogged(log[t])

\* The blocks of blks that show a question.
Entries(blks) ==
    SelectSeq(blks, LAMBDA b : b.type = "section" /\ b.key = "text" /\ b.text[1] = "*<")

Built(t) == blocks[t] # <<>> /\ NonEmpty(given[t]) /\ AllMappings(given[t])

\* C4: for a non-empty list of n question records the entries emitted are
\* the first min(10, n) records in the caller's order: the i-th entry shows
\* the url, title and reply count of the i-th record.
C4_FirstTenInCallerOrder ==
    \A t \in Threads :
        Built(t) =>
            LET items == given[t].items
                d == IF Len(items) < 10 THEN Len(items) ELSE 10
                e == Entries(blocks[t])
            IN  /\ Len(e) = d
                /\ \A i \in 1..d :
                       LET f == items[i].fields
                           text == e[i].text
                       IN  /\ text[2] = (IF "url" \in DOMAIN f THEN f["url"] ELSE "#")
                           /\ text[4] = (IF "title" \in DOMAIN f THEN f["title"]
                                         ELSE "Untitled Question")
                           /\ text[Len(text)] =
                                  ToString(IF "replies" \in DOMAIN f THEN f["replies"] ELSE 0)

C4_Witness ==
    \E t \in Threads :
        /\ Built(t) /\ Len(given[t].items) = 11
        /\ given[t].items[1] # given[t].items[11]
        /\ Len(Entries(blocks[t])) = 10

\* C5: for a non-empty list of n records, with d = min(10, n), the blocks
\* are the header, metadata, count and divider blocks, then the d entries
\* with one divider between consecutive entries and none after the last,
\* then one "Showing d of n" note if n > d and nothing otherwise.
C5_BlockLayout ==
    \A t \in Threads :
        Built(t) =>
            LET n == Len(given[t].items)
                d == IF n < 10 THEN n ELSE 10
                b == blocks[t]
                isEntry(x) == x.type = "section" /\ x.key = "text" /\ x.text[1] = "*<"
            IN  /\ Len(b) = 4 + d + (d - 1) + (IF n > d THEN 1 ELSE 0)
                /\ b[1].type = "header" /\ b[1].text = <<report_title>>
                /\ b[2].type = "section" /\ b[2].key = "fields"
                /\ b[3].type = "section" /\ b[3].text[2] = ToString(n)
                /\ b[4].type = "divider"
                /\ \A i \in 1..d : isEntry(b[4 + 2 * i - 1])
                /\ \A i \in 1..(d - 1) : b[4 + 2 * i].type = "divider"
                /\ Cardinality({i \in 5..Len(b) : b[i].type = "divider"}) = d - 1
                /\ n > d => /\ b[Len(b)].type = "context"
                            /\ b[Len(b)].text[2] = ToString(d)
                            /\ b[Len(b)].text[4] = ToString(n)
                /\ n <= 10 => isEntry(b[Len(b)])
                /\ n = 15 => /\ Len(Entries(b)) = 10
                             /\ b[Len(b)].text[2] = "10" /\ b[Len(b)].text[4] = "15"

C5_Witness ==
    \E t \in Threads :
        /\ Built(t) /\ Len(given[t].items) = 15
        /\ blocks[t][Len(blocks[t])].type = "context"

\* The age pieces of an entry: what stands between "Age: " and " | Replies: ".
AgeShown(entry) == SubSeq(entry.text, 6, Len(entry.text) - 2)

\* C6: when a call builds the blocks, the age of each displayed record is
\* "<k> days", k being the number of days from the record's date to the
\* current date, when the date field parses as YYYY-MM-DD (9 for
\* 2024-01-01 on 2024-01-10), and "Unknown" when the field is absent or
\* does not parse; then nothing is raised, the failure is logged, and that
\* record and all later records are emitted.
C6_AgeOrUnknown ==
    [][ \A t \in Threads :
          (/\ calls' = calls + 1
           /\ blocks'[t] # <<>> /\ NonEmpty(given'[t]) /\ AllMappings(given'[t])) =>
              LET items == given'[t].items
                  d == IF Len(items) < 10 THEN Len(items) ELSE 10
                  e == Entries(blocks'[t])
              IN  /\ pc'[t] # "raised"
                  /\ Len(e) = d
                  /\ \A i \in 1..d :
                         LET f == items[i].fields
                             parsed == IF "date" \in DOMAIN f THEN Strptime(f["date"])
                                       ELSE [ok |-> FALSE, date |-> <<1, 1, 1>>]
                         IN  /\ parsed.ok =>
                                    AgeShown(e[i]) =
                                        <<ToString(Ordinal(clock.date) - Ordinal(parsed.date)),
                                          " days">>
                             /\ ~parsed.ok =>
                                    /\ AgeShown(e[i]) = <<"Unknown">>
                                    /\ \E j \in 1..Len(log'[t]) :
                                           log'[t][j] = LogEntry("error", "Failed to parse date")
                             /\ (items[i] = RecOld /\ clock.date = <<2024, 1, 10>>) =>
                                    AgeShown(e[i]) = <<"9", " days">>
                             /\ items[i] \in {RecBadDate, RecEmpty, RecNonStr, RecNoDay} =>
                                    AgeShown(e[i]) = <<"Unknown">> ]_vars

C6_Witness ==
    \E t \in Threads :
        /\ Built(t) /\ Len(given[t].items) >= 3
        /\ given[t].items[1] = RecBadDate /\ given[t].items[2] = RecOld
        /\ AgeShown(Entries(blocks[t])[1]) = <<"Unknown">>
        /\ AgeShown(Entries(blocks[t])[2]) = <<"9", " days">>
        /\ Len(Entries(blocks[t])) >= 3

\* C7: a call of send_notification issues at most one POST, also after a
\* failed response or a transport exception, so the POSTs issued never
\* outnumber the calls that passed the preconditions.
C7_AtMostOnePost ==
    /\ posts <= passed
    /\ \A t \in Threads : Len(sent[t]) <= 1

C7_Witness ==
    /\ posts = 2
    /\ \E t \in Threads :
           /\ Sends(t) /\ pc[t] = "returned" /\ ret[t] = "False"
           /\ response[t] # <<>> /\ Len(sent[t]) = 1

\* C8: token, channel and report title never change after construction,
\* whatever calls run and however they interleave, and no call modifies the
\* caller's questions list.
C8_ConfigurationFixed ==
    /\ [](\A t \in Threads : questions[t] = given[t])
    /\ [][ /\ token' = token /\ channel' = channel /\ report_title' = report_title ]_vars

C8_Witness ==
    /\ pc[1] = "awaiting" /\ pc[2] = "returned"
    /\ Len(given[1].items) > DisplayCap
    /\ token = "explicit" /\ channel = "explicit"

\* C9 as stated: the token is the explicit argument if one is given, else
\* AEM_SLACK_TOKEN; the channel is the explicit argument if one is given,
\* else AEM_SLACK_CHANNEL, else "general"; the title is AEM_REPORT_TITLE,
\* else the default title.
C9_Original ==
    constructed =>
        /\ token = (IF args.token # None THEN args.token
                    ELSE IF EnvTokenVar \in DOMAIN env THEN env[EnvTokenVar] ELSE None)
        /\ channel = (IF args.channel # None THEN args.channel
                      ELSE IF EnvChannelVar \in DOMAIN env THEN env[EnvChannelVar]
                      ELSE "general")
        /\ report_title = (IF EnvTitleVar \in DOMAIN env THEN env[EnvTitleVar]
                           ELSE "Adobe Experience League Forums: Unresolved Questions")

\* C9 as amended: an explicit argument is used only when it is non-empty;
\* an argument that is None or the empty string falls back to
\* AEM_SLACK_TOKEN (None when unset) for the token and to AEM_SLACK_CHANNEL
\* (the value set, even if empty), else "general", for the channel; the
\* title is AEM_REPORT_TITLE if set, else the default title.  Construction
\* completes for every argument and environment, and logs one warning
\* exactly when the token or the channel is left None or empty.
C9_Precedence ==
    /\ constructed =>
        /\ token = (IF args.token \notin {None, ""} THEN args.token
                    ELSE IF EnvTokenVar \in DOMAIN env THEN env[EnvTokenVar] ELSE None)
        /\ channel = (IF args.channel \notin {None, ""} THEN args.channel
                      ELSE IF EnvChannelVar \in DOMAIN env THEN env[EnvChannelVar]
                      ELSE "general")
        /\ report_title = (IF EnvTitleVar \in DOMAIN env THEN env[EnvTitleVar]
                           ELSE "Adobe Experience League Forums: Unresolved Questions")
        /\ (token \in {None, ""} \/ channel \in {None, ""}) <=>
               (Len(ctorLog) = 1 /\ ctorLog[1].level = "warning")
        /\ ctorLog # <<>> =>
               /\ (token \in {None, ""}) <=>
                      (\E i \in 1..Len(ctorLog[1].missing) : ctorLog[1].missing[i] = "Slack token")
               /\ (channel \in {None, ""}) <=>
                      (\E i \in 1..Len(ctorLog[1].missing) : ctorLog[1].missing[i] = "Slack channel")
        /\ Len(ctorLog) <= 1
    /\ ~constructed => \A a \in CtorArgs : ENABLED Construct(a)

C9_Witness ==
    /\ constructed
    /\ args.token = "" /\ token = "xoxb-env"
    /\ args.channel = None /\ channel = ""
    /\ ctorLog # <<>>

\* C10: for an empty questions list and any start date create_slack_blocks
\* returns five blocks: header, metadata, count (0 questions), divider and
\* one "no results" block; no entries, no further divider, no note.
C10_EmptyListFiveBlocks ==
    \A t \in Threads :
        (Builds(t) /\ pc[t] = "returned" /\ ~given[t].isNone /\ given[t].items = <<>>) =>
            LET b == blocks[t]
            IN  /\ Len(b) = 5
                /\ b[1].type = "header" /\ b[1].text = <<report_title>>
                /\ b[2].type = "section" /\ b[2].key = "fields"
                /\ b[2].text[4] = (IF start_date[t] = None THEN "None" ELSE start_date[t])
                /\ b[3].type = "section" /\ b[3].text[2] = "0"
                /\ b[4].type = "divider"
                /\ b[5].type = "section"
                /\ b[5].text = <<"No unanswered questions found in the specified time period.">>
                /\ Entries(b) = <<>>
                /\ \A i \in 1..5 : b[i].type # "context"

C10_Witness ==
    \E t \in Threads :
        /\ Builds(t) /\ pc[t] = "returned" /\ ~given[t].isNone /\ given[t].items = <<>>
        /\ start_date[t] = "2024-01-01" /\ Len(blocks[t]) = 5

====
